---------------------------- MODULE Spec2Model ----------------------------
(***************************************************************************)
(* RocketScatter: the KML folder tree (kml_reader.py: parse_folder,        *)
(* read_kml), its two exports (ask_and_export_mapData_file,                *)
(* export_mapData_file), the entry point (main.py) and the launch-site     *)
(* factory (launch_site.py).                                               *)
(*                                                                         *)
(* Python objects are records; an attribute an object does not have is a   *)
(* field the record does not have, so hasattr(x, "a") is "a" \in DOMAIN x. *)
(* Lists are sequences.  Loop indices are the 1-based numbers the prompts  *)
(* print (i+1, j+1 in the source).                                         *)
(***************************************************************************)
EXTENDS Integers, Sequences, FiniteSets, TLC

VARIABLES
    doc,            \* the parsed document object pykml hands to read_kml (root)
    root,           \* read_kml's return value, NotRead before
    kml_folders,    \* the first argument of the running export
    mode,           \* which export runs: "ask" | "all" | "none"
    pc,             \* where the program stands (see the actions)
    i, j,           \* the loop indices of the export (folder, placemark)
    res,            \* the export's local `res`: the last line input() returned
    exported_data,  \* the export's local dict {"data": [...]}
    sink,           \* what has been written to mapData_file_path, one entry per write
    prompts,        \* the prompts input() has printed so far, in order
    origin,         \* history: origin[k] = <<i, j>> of the placemark behind data[k]
    inclAllYes,     \* history: every inclusion prompt so far got an affirmative answer
    allEmpty,       \* history: every prompt so far got the empty line
    df,             \* launch_site's coordinate table: [columns, rows]
    sitename,       \* launch_site's sitename argument (NoneValue when omitted)
    site            \* what the launch_site call came to: NotCalled, a return or a raise

vars == <<doc, root, kml_folders, mode, pc, i, j, res, exported_data, sink,
          prompts, origin, inclAllYes, allEmpty, df, sitename, site>>

exportVars_but_pc == <<kml_folders, mode, i, j, res, exported_data, sink,
                       prompts, origin, inclAllYes, allEmpty>>
siteVars == <<df, sitename, site>>

---------------------------------------------------------------------------
(* Bounds of the model. *)

\* folders in the list handed to an export
MaxFolders == 2
\* placemarks in all folders of that list together
MaxPlacemarks == 2
\* child Folder elements of one raw KML node
KmlMaxChildren == 2
\* Placemark elements of one raw KML node
KmlMaxPlacemarks == 1
\* rows of a coordinate table
MaxRows == 3

NoneValue == [py |-> "None"]
NotRead == [py |-> "unset"]

---------------------------------------------------------------------------
(* shapely geometries, as far as the exports read them: geom_type, and     *)
(* coords (Point, LineString) or exterior.coords (Polygon).                *)

\* shapely closes a polygon's shell: exterior.coords ends where it starts
CloseRing(cs) ==
    IF Len(cs) > 0 /\ cs[1] # cs[Len(cs)] THEN Append(cs, cs[1]) ELSE cs

Point(x, y) == [geom_type |-> "Point", coords |-> << <<x, y>> >>]
LineString(cs) == [geom_type |-> "LineString", coords |-> cs]
Polygon(cs) == [geom_type |-> "Polygon", exterior |-> CloseRing(cs)]

kml_placemark(name, geometry) == [name |-> name, geometry |-> geometry]
kml_folder(name, folders, placemarks) ==
    [name |-> name, folders |-> folders, placemarks |-> placemarks]

---------------------------------------------------------------------------
(* parse_folder and read_kml. A raw node is what pykml's objectify gives:  *)
(* a record with the fields its element has.  Coordinate text is held      *)
(* already split: a sequence (split on whitespace) of tuples (split on     *)
(* ","), float() taken on each token.                                      *)

GetAttr(obj, a, default) == IF a \in DOMAIN obj THEN obj[a] ELSE default

\* lines 35-51: Point before LineString before Polygon, None when none is there
ParseGeometry(placemark) ==
    IF "Point" \in DOMAIN placemark
    THEN LET coordinates == placemark.Point[1]
         IN  Point(coordinates[1], coordinates[2])
    ELSE IF "LineString" \in DOMAIN placemark
    THEN LineString(placemark.LineString)
    ELSE IF "Polygon" \in DOMAIN placemark
    THEN Polygon(placemark.Polygon)
    ELSE NoneValue

\* lines 32-34 and 53
ParsePlacemark(placemark) ==
    kml_placemark(GetAttr(placemark, "name", "Unnamed Placemark"),
                  ParseGeometry(placemark))

RECURSIVE parse_folder(_)
parse_folder(folder) ==
    LET folder_name == GetAttr(folder, "name", "Unnamed Folder")
        raw_placemarks == GetAttr(folder, "Placemark", <<>>)
        raw_children == GetAttr(folder, "Folder", <<>>)
        placemarks == [k \in 1..Len(raw_placemarks) |->
                          ParsePlacemark(raw_placemarks[k])]
        child_folders == [k \in 1..Len(raw_children) |->
                             parse_folder(raw_children[k])]
    IN  kml_folder(folder_name, child_folders, placemarks)

\* lines 68-72: the tree is built twice and the second one returned
read_kml(document) == parse_folder(document)

---------------------------------------------------------------------------
(* The console. *)

\* the lines the operator types, as far as the model tries them
Responses ==
    {"", "y", "YES", "n", "maybe", "s", "Safty", "safety", "f", "Forbidden"}

\* str.lower() on those lines
Lower(s) ==
    CASE s = "YES" -> "yes"
      [] s = "Safty" -> "safty"
      [] s = "Forbidden" -> "forbidden"
      [] OTHER -> s

\* (mutant) the empty line no longer counts as yes
Included_noDefault(r) == Lower(r) \in {"y", "yes"}

\* (mutant) everything but an explicit no counts as yes
Included_unlessNo(r) == Lower(r) \notin {"n", "no"}

\* lines 89 and 95: res.lower() in ["y", "yes", ""]
Included(r) == Lower(r) \in {"y", "yes", ""}

\* (mutant) every answer but "f"/"forbidden" tags the record as safe
TypeOf_defaultSafty(r) ==
    IF Lower(r) \in {"f", "forbidden"} THEN "forbidden" ELSE "safty"

\* lines 115 and 120: the tag the classification answer stands for, if any
TypeOf(r) ==
    IF Lower(r) \in {"s", "safty"} THEN "safty"
    ELSE IF Lower(r) \in {"f", "forbidden"} THEN "forbidden"
    ELSE "untagged"

---------------------------------------------------------------------------
(* The export records. *)

\* lines 99-102 (147-150): the coordinates an export reads from a geometry
Coords(geometry) ==
    IF geometry.geom_type = "Polygon" THEN geometry.exterior ELSE geometry.coords

\* lines 104-110 (152-158): the record appended for a placemark
NewRecord(placemark) ==
    [name |-> placemark.name,
     geometry |-> placemark.geometry.geom_type,
     coordinates |-> Coords(placemark.geometry)]

\* (mutant) the tag set, the geometry left as it was
Tagged_keepGeometry(rec, t) ==
    [name |-> rec.name, geometry |-> rec.geometry,
     coordinates |-> rec.coordinates, type |-> t]

\* lines 116-119 and 121-122: data[-1]["type"] = t; data[-1]["geometry"] = "Polygon"
Tagged(rec, t) ==
    [name |-> rec.name, geometry |-> "Polygon",
     coordinates |-> rec.coordinates, type |-> t]

\* line 160: data[-1]["type"] = "safty", the geometry left as it is
AutoTagged(rec) ==
    [name |-> rec.name, geometry |-> rec.geometry,
     coordinates |-> rec.coordinates, type |-> "safty"]

\* tomli_w.dumps of one record: its keys in insertion order, each with its value
DumpRecord(rec) ==
    << <<"name", rec.name>>, <<"geometry", rec.geometry>>,
       <<"coordinates", rec.coordinates>> >>
    \o (IF "type" \in DOMAIN rec THEN << <<"type", rec.type>> >> ELSE <<>>)

\* (mutant) the records written last first
dumps_reversed(data) ==
    [k \in 1..Len(data.data) |-> DumpRecord(data.data[Len(data.data) + 1 - k])]

\* lines 125 and 162: toml_string = dumps(exported_data), an array of tables "data"
dumps(data) == [k \in 1..Len(data.data) |-> DumpRecord(data.data[k])]

SetLast(s, v) == [s EXCEPT ![Len(s)] = v]

---------------------------------------------------------------------------
(* Where the interactive export stands and which prompt it prints next.    *)

FolderPrompt(ii) == [kind |-> "folder", i |-> ii, j |-> 0]
PlacemarkPrompt(ii, jj) == [kind |-> "placemark", i |-> ii, j |-> jj]
TypePrompt(ii, jj) == [kind |-> "type", i |-> ii, j |-> jj]

\* line 87: the outer loop goes on to the folder after ii, or ends
AfterFolder(ii) ==
    IF ii < Len(kml_folders)
    THEN [pc |-> "ask_folder", i |-> ii + 1, j |-> 0]
    ELSE [pc |-> "write", i |-> ii, j |-> 0]

\* line 91: the inner loop goes on to the placemark after jj, or ends
AfterPlacemark(ii, jj) ==
    IF jj < Len(kml_folders[ii].placemarks)
    THEN [pc |-> "ask_placemark", i |-> ii, j |-> jj + 1]
    ELSE AfterFolder(ii)

\* lines 89-91: an included folder: its first placemark, if it has one
EnterFolder(ii) == AfterPlacemark(ii, 0)

\* lines 125-130: dumps, open(path, "w"), write: one write of the whole text
WriteFile(data) ==
    /\ sink' = Append(sink, dumps(data))
    /\ pc' = "done"

\* run on to the next input() call, which prints its prompt, or to the write
Resume(c, data) ==
    /\ i' = c.i
    /\ j' = c.j
    /\ IF c.pc = "write"
       THEN /\ WriteFile(data)
            /\ UNCHANGED prompts
       ELSE /\ pc' = c.pc
            /\ prompts' = Append(prompts,
                   IF c.pc = "ask_folder" THEN FolderPrompt(c.i)
                   ELSE PlacemarkPrompt(c.i, c.j))
            /\ UNCHANGED sink

---------------------------------------------------------------------------
(* ask_and_export_mapData_file, lines 75-130.  One action per line the     *)
(* operator enters: the code from one input() call to the next.            *)

\* lines 86-88: the call, up to the first prompt
CallAsk ==
    /\ pc = "idle"
    /\ mode' = "ask"
    /\ exported_data' = [data |-> <<>>]
    /\ Resume(AfterFolder(0), exported_data')
    /\ UNCHANGED <<doc, root, kml_folders, res, origin, inclAllYes, allEmpty>>
    /\ UNCHANGED siteVars

\* lines 88-90: the answer to a folder's inclusion prompt
AnswerFolder(r) ==
    /\ pc = "ask_folder"
    /\ res' = r
    /\ inclAllYes' = (inclAllYes /\ Lower(r) \in {"y", "yes", ""})
    /\ allEmpty' = (allEmpty /\ r = "")
    /\ IF Included(r)
       THEN Resume(EnterFolder(i), exported_data)
       ELSE Resume(AfterFolder(i), exported_data)
    /\ UNCHANGED <<doc, root, kml_folders, mode, exported_data, origin>>
    /\ UNCHANGED siteVars

\* lines 92-114: the answer to a placemark's inclusion prompt
AnswerPlacemark(r) ==
    /\ pc = "ask_placemark"
    /\ res' = r
    /\ inclAllYes' = (inclAllYes /\ Lower(r) \in {"y", "yes", ""})
    /\ allEmpty' = (allEmpty /\ r = "")
    /\ LET placemark == kml_folders[i].placemarks[j]
       IN  IF ~Included(r)
           THEN /\ Resume(AfterPlacemark(i, j), exported_data)
                /\ UNCHANGED <<exported_data, origin>>
           ELSE IF placemark.geometry = NoneValue
           THEN \* line 102: None has no attribute coords
                /\ pc' = "AttributeError"
                /\ UNCHANGED <<i, j, exported_data, origin, prompts, sink>>
           ELSE /\ exported_data' =
                      [data |-> Append(exported_data.data, NewRecord(placemark))]
                /\ origin' = Append(origin, <<i, j>>)
                /\ IF placemark.geometry.geom_type # "Point"
                   THEN /\ pc' = "ask_type"
                        /\ prompts' = Append(prompts, TypePrompt(i, j))
                        /\ UNCHANGED <<i, j, sink>>
                   ELSE Resume(AfterPlacemark(i, j), exported_data')
    /\ UNCHANGED <<doc, root, kml_folders, mode>>
    /\ UNCHANGED siteVars

\* lines 112-123: the answer to the classification prompt
AnswerType(r) ==
    /\ pc = "ask_type"
    /\ res' = r
    /\ allEmpty' = (allEmpty /\ r = "")
    /\ LET data == exported_data.data
           last == data[Len(data)]
       IN  exported_data' =
              IF TypeOf(r) # "untagged"
              THEN [data |-> SetLast(data, Tagged(last, TypeOf(r)))]
              ELSE exported_data
    /\ Resume(AfterPlacemark(i, j), exported_data')
    /\ UNCHANGED <<doc, root, kml_folders, mode, origin, inclAllYes>>
    /\ UNCHANGED siteVars

\* lines 88, 92, 112: input() at end of input raises EOFError and the call ends
InputEOF ==
    /\ pc \in {"ask_folder", "ask_placemark", "ask_type"}
    /\ pc' = "EOFError"
    /\ UNCHANGED <<doc, root, kml_folders, mode, i, j, res, exported_data, sink,
                   prompts, origin, inclAllYes, allEmpty>>
    /\ UNCHANGED siteVars

---------------------------------------------------------------------------
(* export_mapData_file, lines 133-165: one step per placemark.             *)

\* lines 145-146: the first folder from ii on that has a placemark, 0 if none
RECURSIVE NextFolderWithPlacemark(_)
NextFolderWithPlacemark(ii) ==
    IF ii > Len(kml_folders) THEN 0
    ELSE IF Len(kml_folders[ii].placemarks) > 0 THEN ii
    ELSE NextFolderWithPlacemark(ii + 1)

\* run on to the next placemark of the two loops, or to the write (162-165)
ExportGoto(ii, jj, data) ==
    LET nf == IF ii >= 1 /\ jj <= Len(kml_folders[ii].placemarks)
              THEN ii ELSE NextFolderWithPlacemark(ii + 1)
        nj == IF nf = ii THEN jj ELSE 1
    IN  IF nf = 0
        THEN /\ WriteFile(data)
             /\ UNCHANGED <<i, j>>
        ELSE /\ pc' = "export_loop"
             /\ i' = nf
             /\ j' = nj
             /\ UNCHANGED sink

\* line 144: the call
CallExport ==
    /\ pc = "idle"
    /\ mode' = "all"
    /\ exported_data' = [data |-> <<>>]
    /\ ExportGoto(0, 1, exported_data')
    /\ UNCHANGED <<doc, root, kml_folders, res, prompts, origin, inclAllYes,
                   allEmpty>>
    /\ UNCHANGED siteVars

\* lines 146-160: one placemark
ExportStep ==
    /\ pc = "export_loop"
    /\ LET placemark == kml_folders[i].placemarks[j]
       IN  IF placemark.geometry = NoneValue
           THEN \* line 150
                /\ pc' = "AttributeError"
                /\ UNCHANGED <<i, j, exported_data, origin, sink>>
           ELSE /\ exported_data' =
                      [data |-> Append(exported_data.data,
                          IF placemark.geometry.geom_type = "Polygon"
                          THEN AutoTagged(NewRecord(placemark))
                          ELSE NewRecord(placemark))]
                /\ origin' = Append(origin, <<i, j>>)
                /\ ExportGoto(i, j + 1, exported_data')
    /\ UNCHANGED <<doc, root, kml_folders, mode, res, prompts, inclAllYes,
                   allEmpty>>
    /\ UNCHANGED siteVars

NextExport ==
    \/ CallAsk
    \/ \E r \in Responses : AnswerFolder(r)
    \/ \E r \in Responses : AnswerPlacemark(r)
    \/ \E r \in Responses : AnswerType(r)
    \/ InputEOF
    \/ CallExport
    \/ ExportStep

---------------------------------------------------------------------------
(* The exports on a list of folders (the List[kml_folder] of lines 76 and  *)
(* 134).                                                                   *)

SeqsUpTo(S, n) == UNION {[1..k -> S] : k \in 0..n}

RECURSIVE SumLen(_)
SumLen(fs) ==
    IF fs = <<>> THEN 0 ELSE Len(fs[1].placemarks) + SumLen(Tail(fs))

Placemarks ==
    { kml_placemark("P", Point(1, 2)),
      kml_placemark("L", LineString(<< <<0, 0>>, <<1, 1>> >>)),
      kml_placemark("G", Polygon(<< <<0, 0>>, <<1, 0>>, <<0, 1>> >>)) }

Folders ==
    { kml_folder("F", <<>>, ps) : ps \in SeqsUpTo(Placemarks, MaxPlacemarks) }

FolderLists ==
    { fs \in SeqsUpTo(Folders, MaxFolders) : SumLen(fs) <= MaxPlacemarks }

NotCalled == [py |-> "not called"]
NoTable == [columns |-> {}, rows |-> <<>>]

ExportIdle ==
    /\ mode = "none"
    /\ i = 0
    /\ j = 0
    /\ res = "<unbound>"
    /\ exported_data = [data |-> <<>>]
    /\ sink = <<>>
    /\ prompts = <<>>
    /\ origin = <<>>
    /\ inclAllYes = TRUE
    /\ allEmpty = TRUE

SiteIdle ==
    /\ df = NoTable
    /\ sitename = NoneValue
    /\ site = NotCalled

Init ==
    /\ doc = NotRead
    /\ root = NotRead
    /\ kml_folders \in FolderLists
    /\ pc = "idle"
    /\ ExportIdle
    /\ SiteIdle

Next == NextExport

Spec == Init /\ [][Next]_vars

---------------------------------------------------------------------------
(* read_kml followed by an export: main.py, and a caller that hands the    *)
(* export the tree as a list of one folder.                                *)

RawPlacemarks ==
    { [name |-> "P", Point |-> << <<1, 2, 0>> >>],
      [name |-> "L", LineString |-> << <<0, 0>>, <<1, 1>> >>],
      [name |-> "G", Polygon |-> << <<0, 0>>, <<1, 0>>, <<0, 1>>, <<0, 0>> >>],
      [Point |-> << <<3, 4>> >>, Polygon |-> << <<0, 0>>, <<1, 0>>, <<0, 1>> >>],
      [name |-> "M"] }

\* a raw element with the children given: an empty list is an absent child
RawNode(base, placemarks, folders) ==
    LET withP == IF placemarks = <<>> THEN base
                 ELSE [a \in DOMAIN base \cup {"Placemark"} |->
                          IF a = "Placemark" THEN placemarks ELSE base[a]]
    IN  IF folders = <<>> THEN withP
        ELSE [a \in DOMAIN withP \cup {"Folder"} |->
                 IF a = "Folder" THEN folders ELSE withP[a]]

\* Folder elements without child folders, named or not
RawLeaves ==
    { RawNode(b, ps, <<>>) :
        b \in {[name |-> "F"], [tag |-> "Folder"]},
        ps \in SeqsUpTo(RawPlacemarks, KmlMaxPlacemarks) }

\* root.Document: placemarks of its own and child folders
RawDocuments ==
    { RawNode([name |-> "D"], ps, fs) :
        ps \in SeqsUpTo(RawPlacemarks, KmlMaxPlacemarks),
        fs \in SeqsUpTo(RawLeaves, KmlMaxChildren) }

KmlInit ==
    /\ doc \in RawDocuments
    /\ root = NotRead
    /\ kml_folders = <<>>
    /\ pc = "start"
    /\ ExportIdle
    /\ SiteIdle

\* kml_reader.py 68-72, called by a program that goes on with the tree
ReadKml ==
    /\ pc = "start"
    /\ root' = read_kml(doc)
    /\ pc' = "parsed"
    /\ UNCHANGED <<doc, kml_folders, mode, i, j, res, exported_data, sink,
                   prompts, origin, inclAllYes, allEmpty>>
    /\ UNCHANGED siteVars

\* main.py 6-7: read_kml's kml_folder itself is handed to the export, whose
\* enumerate(kml_folders) (line 87) raises TypeError: a kml_folder is not iterable
Main ==
    /\ pc = "start"
    /\ root' = read_kml(doc)
    /\ kml_folders' = root'
    /\ mode' = "ask"
    /\ exported_data' = [data |-> <<>>]
    /\ pc' = "TypeError"
    /\ UNCHANGED <<doc, i, j, res, sink, prompts, origin, inclAllYes, allEmpty>>
    /\ UNCHANGED siteVars

\* a caller that hands an export the list [root]
PassRoot ==
    /\ pc = "parsed"
    /\ kml_folders' = <<root>>
    /\ pc' = "idle"
    /\ UNCHANGED <<doc, root, mode, i, j, res, exported_data, sink, prompts,
                   origin, inclAllYes, allEmpty>>
    /\ UNCHANGED siteVars

KmlNext ==
    \/ ReadKml
    \/ Main
    \/ PassRoot
    \/ NextExport

KmlSpec == KmlInit /\ [][KmlNext]_vars

---------------------------------------------------------------------------
(* Properties of the exports.                                              *)

Data == exported_data.data

\* the placemark behind record k
Source(k) == kml_folders[origin[k][1]].placemarks[origin[k][2]]

\* <<i, j>> of every placemark of the folders fs, in list order
RECURSIVE Positions(_, _)
Positions(fs, ii) ==
    IF ii > Len(fs) THEN <<>>
    ELSE [jj \in 1..Len(fs[ii].placemarks) |-> <<ii, jj>>] \o Positions(fs, ii + 1)

\* the placemarks of a folder tree: the folder's own, then each child's
RECURSIVE TreePlacemarks(_)
RECURSIVE ForestPlacemarks(_)
TreePlacemarks(folder) == folder.placemarks \o ForestPlacemarks(folder.folders)
ForestPlacemarks(fs) ==
    IF fs = <<>> THEN <<>>
    ELSE TreePlacemarks(fs[1]) \o ForestPlacemarks(Tail(fs))

\* every placemark of the tree has a geometry
WellFormed(folder) ==
    \A k \in 1..Len(TreePlacemarks(folder)) :
        TreePlacemarks(folder)[k].geometry # NoneValue

\* C1: read_kml, then the interactive export with an affirmative answer at
\* every inclusion prompt, gives one record per placemark of the whole tree,
\* in the tree's order.
C1_OneRecordPerTreePlacemark ==
    (pc = "done" /\ mode = "ask" /\ inclAllYes /\ WellFormed(root))
        => [k \in 1..Len(Data) |-> Data[k].name]
             = [k \in 1..Len(TreePlacemarks(root)) |-> TreePlacemarks(root)[k].name]

\* C2: in both exports, at every moment, a record with a `type` has geometry
\* "Polygon" and a record without one has the geometry kind of its placemark.
C2_TaggedIsPolygon ==
    \A k \in 1..Len(Data) :
        IF "type" \in DOMAIN Data[k]
        THEN Data[k].geometry = "Polygon"
        ELSE Data[k].geometry = Source(k).geometry.geom_type

\* C2's case: a LineString the operator tagged
C2_Witness ==
    /\ mode = "ask"
    /\ \E k \in 1..Len(Data) :
          /\ "type" \in DOMAIN Data[k]
          /\ Source(k).geometry.geom_type = "LineString"

\* C3: a record's `type`, when it has one, is "safety" or "forbidden".
C3_TypeIsSafetyOrForbidden ==
    \A k \in 1..Len(Data) :
        "type" \in DOMAIN Data[k] => Data[k].type \in {"safety", "forbidden"}

\* C4: an interactive export that got the empty line at every prompt has
\* exported every placemark of every folder of the list, none with a `type`.
C4_AllDefaults ==
    (pc = "done" /\ mode = "ask" /\ allEmpty)
        => /\ origin = Positions(kml_folders, 1)
           /\ Len(Data) = Len(origin)
           /\ \A k \in 1..Len(Data) :
                 /\ "type" \notin DOMAIN Data[k]
                 /\ Data[k].name = Source(k).name
                 /\ Data[k].geometry = Source(k).geometry.geom_type
           /\ Len(sink) = 1
           /\ Len(sink[1]) = Len(Data)

\* C4's case: two folders, two placemarks, one of them asked for its class
C4_Witness ==
    /\ pc = "done"
    /\ mode = "ask"
    /\ allEmpty
    /\ Len(kml_folders) = 2
    /\ Len(Data) = 2
    /\ \E k \in 1..Len(prompts) : prompts[k].kind = "type"

\* C8: a folder prompt answered outside {"y", "yes", ""} (case ignored) skips
\* the folder: the next prompt is the next folder's (or the pass ends), no
\* record is added, and no later prompt or record belongs to an earlier folder.
C8_FolderSkipped ==
    /\ [][(pc = "ask_folder" /\ pc' # "EOFError"
              /\ Lower(res') \notin {"y", "yes", ""})
            => /\ exported_data' = exported_data
               /\ origin' = origin
               /\ IF i < Len(kml_folders)
                  THEN /\ pc' = "ask_folder"
                       /\ i' = i + 1
                       /\ prompts' = Append(prompts, FolderPrompt(i + 1))
                  ELSE /\ pc' = "done"
                       /\ prompts' = prompts]_vars
    /\ [][mode = "ask" =>
            /\ i' >= i
            /\ prompts' # prompts => prompts'[Len(prompts')].i = i'
            /\ origin' # origin => origin'[Len(origin')][1] = i]_vars

\* C8's case: the first folder, which has placemarks, was refused and the
\* second folder's prompt is out
C8_Witness ==
    /\ pc = "ask_folder"
    /\ i = 2
    /\ Lower(res) \notin {"y", "yes", ""}
    /\ Len(kml_folders[1].placemarks) > 0
    /\ prompts = <<FolderPrompt(1), FolderPrompt(2)>>
    /\ Data = <<>>

Unrecognized(r) == Lower(r) \notin {"y", "yes", "", "n", "no"}
UnrecognizedType(r) == Lower(r) \notin {"s", "safty", "f", "forbidden"}

NoRePrompt ==
    \A a, b \in 1..Len(prompts) : a # b => prompts[a] # prompts[b]

\* C9 as stated: an unrecognized answer to an inclusion prompt includes the
\* item, one to the classification prompt leaves the record without a `type`,
\* and no prompt is printed twice.
C9_UnrecognizedIsYes ==
    /\ [][(pc = "ask_folder" /\ pc' # "EOFError" /\ Unrecognized(res'))
            => (Len(kml_folders[i].placemarks) > 0
                  => /\ pc' = "ask_placemark"
                     /\ i' = i
                     /\ j' = 1)]_vars
    /\ [][(pc = "ask_placemark" /\ pc' # "EOFError" /\ Unrecognized(res'))
            => Len(exported_data'.data) = Len(exported_data.data) + 1]_vars
    /\ [][(pc = "ask_type" /\ pc' # "EOFError" /\ UnrecognizedType(res'))
            => exported_data' = exported_data]_vars
    /\ []NoRePrompt

\* C9 amended: an unrecognized answer to an inclusion prompt skips the item
\* (no record, no prompt for it or below it), one to the classification prompt
\* leaves the record as appended, without a `type`, and no prompt is printed
\* twice.
C9_UnrecognizedIsNo ==
    /\ [][(pc = "ask_folder" /\ pc' # "EOFError" /\ Unrecognized(res'))
            => /\ exported_data' = exported_data
               /\ \/ pc' = "ask_folder" /\ i' = i + 1
                  \/ pc' = "done"]_vars
    /\ [][(pc = "ask_placemark" /\ pc' # "EOFError" /\ Unrecognized(res'))
            => /\ exported_data' = exported_data
               /\ pc' # "ask_type"
               /\ \/ pc' = "ask_placemark" /\ i' = i /\ j' = j + 1
                  \/ pc' = "ask_folder" /\ i' = i + 1
                  \/ pc' = "done"]_vars
    /\ [][(pc = "ask_type" /\ pc' # "EOFError" /\ UnrecognizedType(res'))
            => /\ exported_data' = exported_data
               /\ "type" \notin DOMAIN exported_data'.data[Len(exported_data'.data)]]_vars
    /\ []NoRePrompt

\* C9's case: the first placemark's inclusion prompt got "maybe", nothing was
\* appended and the second placemark's prompt is out
C9_Witness ==
    /\ pc = "ask_placemark"
    /\ j = 2
    /\ res = "maybe"
    /\ Data = <<>>
    /\ prompts = <<FolderPrompt(i), PlacemarkPrompt(i, 1), PlacemarkPrompt(i, 2)>>

\* a prompt's place in the traversal: folder, placemark, inclusion before class
Before(p, q) ==
    \/ p.i < q.i
    \/ p.i = q.i /\ p.j < q.j
    \/ p.i = q.i /\ p.j = q.j /\ p.kind # "type" /\ q.kind = "type"

Aborted == pc \in {"EOFError", "AttributeError", "TypeError"}

\* C10: the sink is written at most once, only when no prompt is left to
\* answer, with every accumulated record in order; the prompts come in
\* traversal order, a classification prompt right after its placemark's
\* inclusion prompt; a pass that ends in an error has written nothing.
C10_OneWriteAtTheEnd ==
    /\ Len(sink) <= 1
    /\ sink # <<>> =>
          /\ pc = "done"
          /\ Len(sink[1]) = Len(Data)
          /\ \A k \in 1..Len(Data) :
                /\ sink[1][k][1] = <<"name", Data[k].name>>
                /\ sink[1][k][2] = <<"geometry", Data[k].geometry>>
                /\ sink[1][k][3] = <<"coordinates", Data[k].coordinates>>
                /\ Len(sink[1][k]) = IF "type" \in DOMAIN Data[k] THEN 4 ELSE 3
                /\ "type" \in DOMAIN Data[k] => sink[1][k][4] = <<"type", Data[k].type>>
    /\ pc = "done" => Len(sink) = 1
    /\ \A a, b \in 1..Len(prompts) : a < b => Before(prompts[a], prompts[b])
    /\ \A a \in 1..Len(prompts) :
          prompts[a].kind = "type"
              => /\ a > 1
                 /\ prompts[a - 1] = PlacemarkPrompt(prompts[a].i, prompts[a].j)
    /\ Aborted => sink = <<>>

\* C10's case: a finished interactive export of two records, one classified
C10_Witness ==
    /\ pc = "done"
    /\ mode = "ask"
    /\ Len(sink) = 1
    /\ Len(Data) = 2
    /\ Len(prompts) >= 4
    /\ \E a \in 1..Len(prompts) : prompts[a].kind = "type"
    /\ \E k \in 1..Len(Data) : "type" \in DOMAIN Data[k]

---------------------------------------------------------------------------
(* launch_site.py.  A string is the sequence of its characters, each a     *)
(* one-character name ("U+7DEF" is the character with that code point).    *)

Raised(exception, line) == [raised |-> exception, line |-> line]
Returned(value) == [returned |-> value]

lat == <<"l", "a", "t">>
lon == <<"l", "o", "n">>
latitude == <<"l", "a", "t", "i", "t", "u", "d", "e">>
longitude == <<"l", "o", "n", "g", "i", "t", "u", "d", "e">>
ido == <<"U+7DEF", "U+5EA6">>
keido == <<"U+7D4C", "U+5EA6">>

\* lines 19-24: the dict handed to str.maketrans, as its items
COORD_COLS == << <<ido, lat>>, <<keido, lon>>, <<latitude, lat>>, <<longitude, lon>> >>

\* line 18: str.maketrans(d) takes keys of one character only and raises
\* ValueError ("string keys in translate table must be of length 1") otherwise
maketrans(items) ==
    IF \E k \in 1..Len(items) : Len(items[k][1]) # 1
    THEN Raised("ValueError", 18)
    ELSE [c \in {items[k][1][1] : k \in 1..Len(items)} |->
             (CHOOSE k \in 1..Len(items) : items[k][1][1] = c)]

\* line 18, run when the module is imported
COORD_COLS_TABLE == maketrans(COORD_COLS)

RECURSIVE translate(_, _)
\* str.translate(table): each character replaced by what the table maps it to
translate(str, table) ==
    IF str = <<>> THEN <<>>
    ELSE (IF str[1] \in DOMAIN table THEN COORD_COLS[table[str[1]]][2]
          ELSE <<str[1]>>) \o translate(Tail(str), table)

\* lines 76-95: boundary_line.__init__ with df given and filepath None: line 91
\* compares a set with a list, `{"lat", "lon"} <= cols`, which raises TypeError
boundary_line(table) == Raised("TypeError", 91)

\* lines 124-140, the module imported, df given and filepath None
launch_site(table, name) ==
    IF name = NoneValue
    THEN \* line 129: filepath is None and has no attribute stem
         Raised("AttributeError", 129)
    ELSE LET columns == [k \in 1..Len(table.columns) |->
                            translate(table.columns[k], COORD_COLS_TABLE)]
         IN  \* line 132: `{"lat", "lon"} <= df.columns` is not a set comparison:
             \* set.__le__ declines an Index, pandas then compares each column
             \* name with the set, str >= set, which raises TypeError
             IF Len(columns) > 0
             THEN Raised("TypeError", 132)
             ELSE IF ~({lat, lon} \subseteq {columns[k] : k \in 1..Len(columns)})
             THEN Raised("ValueError", 133)
             ELSE IF Len(table.rows) = 1
             THEN Returned("None")
             ELSE IF Len(table.rows) < 2
             THEN boundary_line(table)
             ELSE \* line 137: df[0] looks up a column named 0, and there is none;
                  \* lines 138-140 (boundary_line for an open curve, safety_zone
                  \* for a closed one of 3 rows or more) are never reached
                  Raised("KeyError", 137)

\* `from launch_site import launch_site`, then launch_site(df=..., sitename=...)
import_and_call(table, name) ==
    IF "raised" \in DOMAIN COORD_COLS_TABLE
    THEN COORD_COLS_TABLE
    ELSE launch_site(table, name)

\* the values of a coordinate
Coordinates == {0, 1}

ColumnSets ==
    { <<lat, lon>>, <<lon, lat>>, <<latitude, longitude>>, <<ido, keido>>,
      <<lat>>, <<lon, <<"a", "l", "t">> >>, << <<"x">>, <<"y">> >> }

Tables ==
    { [columns |-> cs, rows |-> rs] :
        cs \in ColumnSets,
        rs \in SeqsUpTo(Coordinates \X Coordinates, MaxRows) }

SiteInit ==
    /\ doc = NotRead
    /\ root = NotRead
    /\ kml_folders = <<>>
    /\ pc = "site_start"
    /\ ExportIdle
    /\ df \in Tables
    /\ sitename \in {NoneValue, [py |-> "str"]}
    /\ site = NotCalled

Classify ==
    /\ pc = "site_start"
    /\ site' = import_and_call(df, sitename)
    /\ pc' = "site_done"
    /\ UNCHANGED <<doc, root, df, sitename>>
    /\ UNCHANGED exportVars_but_pc

SiteNext == Classify

SiteSpec == SiteInit /\ [][SiteNext]_vars

---------------------------------------------------------------------------
(* Properties of launch_site.                                              *)

\* a column name as the translation table is meant to read it
Normalized(name) ==
    IF name \in {lat, latitude, ido} THEN lat
    ELSE IF name \in {lon, longitude, keido} THEN lon
    ELSE name

HasLatLon(table) ==
    {lat, lon} \subseteq {Normalized(table.columns[k]) : k \in 1..Len(table.columns)}

FirstIsLast(table) == table.rows[1] = table.rows[Len(table.rows)]

\* C5: with lat and lon columns, at least 2 rows and first row # last row give
\* a BoundaryLine, at least 3 rows and first row = last row give a SafetyZone.
C5_VariantByRows ==
    (pc = "site_done" /\ HasLatLon(df) /\ Len(df.rows) >= 2)
        => /\ ~FirstIsLast(df) => site = Returned("boundary_line")
           /\ (Len(df.rows) >= 3 /\ FirstIsLast(df)) => site = Returned("safety_zone")

\* C6: with lat and lon columns, 0 rows, 1 row, or 2 equal rows give the "no
\* classification" result: nothing is returned and nothing is raised.
C6_NoClassification ==
    (/\ pc = "site_done"
     /\ HasLatLon(df)
     /\ \/ Len(df.rows) <= 1
        \/ Len(df.rows) = 2 /\ FirstIsLast(df))
        => site = Returned("None")

\* C7: a table without a lat or a lon column (names normalized) fails with the
\* invalid-schema error of line 133, whatever its rows, and nothing is built;
\* a table with both gets past the schema check.
C7_SchemaCheck ==
    pc = "site_done"
        => IF HasLatLon(df)
           THEN "raised" \in DOMAIN site => site.line > 133
           ELSE site = Raised("ValueError", 133)

=============================================================================
